---- MODULE Spec2Model ----
(***************************************************************************)
(* The inbound message pipeline of src/message-parser.js: the protocol     *)
(* decoder (MessageParser.parse), command resolution and execution         *)
(* (MessageParser.parseCommand, Context.run) and the moderation engine     *)
(* (MessageParser.moderate).                                               *)
(*                                                                         *)
(* Text is a sequence of one-character strings, so that normalisation,     *)
(* trimming and the rule patterns are computed on the characters.  Times   *)
(* are milliseconds.  The timestamp field of a c: line is a well-formed    *)
(* decimal number of unix seconds, after the epoch: positive.              *)
(***************************************************************************)
EXTENDS Integers, Sequences, FiniteSets, TLC

(***************************************************************************)
(* Program constants (src/message-parser.js:20-24).                        *)
(***************************************************************************)
FLOOD_MINIMUM_MESSAGES == 5
FLOOD_MAXIMUM_TIME == 5 * 1000
STRETCHING_MINIMUM == 20
CAPS_MINIMUM == 30
PUNISHMENT_COOLDOWN == 5 * 1000

(***************************************************************************)
(* Bounds of the model.                                                    *)
(***************************************************************************)
\* timestamps are sampled at 0, 1, ..., MaxTick cooldown windows after the
\* epoch, and one second after each of them
MaxTick == 2
\* lines decoded in one behaviour of SpecFlood
MaxChat == 6
\* lines decoded in one behaviour of SpecMod
MaxMod == 3
\* lines decoded in one behaviour of the decoder specification
MaxLines == 4
\* lines decoded in one behaviour of SpecCmd
MaxCmd == 3
\* formats lines decoded in one behaviour of SpecFormats, and the fields
\* of one such line
MaxFormatLines == 2
MaxFields == 3

(***************************************************************************)
(* Characters and text.                                                    *)
(***************************************************************************)
LowerLetters == <<"a","b","c","d","e","f","g","h","i","j","k","l","m",
                  "n","o","p","q","r","s","t","u","v","w","x","y","z">>
UpperLetters == <<"A","B","C","D","E","F","G","H","I","J","K","L","M",
                  "N","O","P","Q","R","S","T","U","V","W","X","Y","Z">>
Digits == {"0","1","2","3","4","5","6","7","8","9"}

Range(s) == {s[i] : i \in DOMAIN s}

UpperSet == Range(UpperLetters)
IdChars == Range(LowerLetters) \cup Digits

\* capsRegex [A-Z]
IsUpper(c) == c \in UpperSet

\* whitespaceRegex \s ; "ZW" stands for a zero-width character of
\* nullCharactersRegex (U+0000, U+200B to U+200F)
IsSpace(c) == c \in {" ", "\t"}
IsNullChar(c) == c = "ZW"

ToLowerChar(c) ==
    IF IsUpper(c)
    THEN LowerLetters[CHOOSE i \in DOMAIN UpperLetters : UpperLetters[i] = c]
    ELSE c

IsIdChar(c) == c \in IdChars

\* Tools.toId: lower case, then everything but a-z and 0-9 removed
ToId(s) ==
    LET low == [i \in DOMAIN s |-> ToLowerChar(s[i])]
    IN  SelectSeq(low, IsIdChar)

RECURSIVE TrimLeft(_)
TrimLeft(s) == IF s # <<>> /\ IsSpace(Head(s)) THEN TrimLeft(Tail(s)) ELSE s

RECURSIVE TrimRight(_)
TrimRight(s) ==
    IF s # <<>> /\ IsSpace(s[Len(s)])
    THEN TrimRight(SubSeq(s, 1, Len(s) - 1))
    ELSE s

\* String.prototype.trim
Trim(s) == TrimRight(TrimLeft(s))

\* array.join('|') of the remaining fields of a line
RECURSIVE JoinFields(_)
JoinFields(fs) ==
    IF fs = <<>> THEN <<>>
    ELSE IF Len(fs) = 1 THEN fs[1]
    ELSE fs[1] \o <<"|">> \o JoinFields(Tail(fs))

\* n copies of the text s
RECURSIVE Rep(_, _)
Rep(s, n) == IF n = 0 THEN <<>> ELSE s \o Rep(s, n - 1)

Max(a, b) == IF a >= b THEN a ELSE b

(***************************************************************************)
(* Rule patterns of moderate.                                              *)
(***************************************************************************)
\* message.trim().replace(whitespaceRegex, '').replace(nullCharactersRegex, '')
NotSpace(c) == ~IsSpace(c)
NotNullChar(c) == ~IsNullChar(c)
Normalize(msg) == SelectSeq(SelectSeq(Trim(msg), NotSpace), NotNullChar)

\* message.match(capsRegex).length
CapsCount(msg) == Len(SelectSeq(msg, IsUpper))

\* stretchRegex (.+)\1+ tried at position i: the greedy group is the longest
\* k with s[i..i+k-1] immediately repeated; 0 when nothing matches at i
GroupLen(s, i) ==
    LET ks == {k \in 1..((Len(s) - i + 1) \div 2) :
                 SubSeq(s, i, i + k - 1) = SubSeq(s, i + k, i + 2 * k - 1)}
    IN  IF ks = {} THEN 0 ELSE CHOOSE k \in ks : \A j \in ks : j <= k

\* how many further copies of the group follow position j (greedy \1+)
RECURSIVE RepCount(_, _, _, _)
RepCount(s, i, k, j) ==
    IF j + k - 1 <= Len(s) /\ SubSeq(s, j, j + k - 1) = SubSeq(s, i, i + k - 1)
    THEN 1 + RepCount(s, i, k, j + k)
    ELSE 0

\* the length of the longest of the global, non-overlapping matches:
\* stretching.sort(...)[0].length, 0 when match returns null
RECURSIVE LongestStretch(_, _)
LongestStretch(s, i) ==
    IF i > Len(s) THEN 0
    ELSE LET k == GroupLen(s, i)
         IN  IF k = 0 THEN LongestStretch(s, i + 1)
             ELSE LET len == k * (1 + RepCount(s, i, k, i + k))
                  IN  Max(len, LongestStretch(s, i + len))

(***************************************************************************)
(* Ranks.  User.hasRank and Config.groups live in users.js and the         *)
(* configuration: a rank is a one-character string and hasRank compares    *)
(* the positions of two ranks in the configured order.                     *)
(***************************************************************************)
Ranks == <<" ", "+", "%", "@">>

IsRank(c) == c \in Range(Ranks)

RankValue(rank) == CHOOSE i \in DOMAIN Ranks : Ranks[i] = rank

\* user.hasRank(room, target) on the user's room-membership map `rooms`
HasRank(rooms, room, target) ==
    /\ room \in DOMAIN rooms
    /\ IsRank(rooms[room])
    /\ RankValue(rooms[room]) >= RankValue(target)

(***************************************************************************)
(* The moderation engine, MessageParser.moderate.                          *)
(***************************************************************************)
\* the value of a lookup that finds nothing, Config.punishmentPoints[action]
Undefined == -1

\* a >= b of JavaScript on numbers or undefined
NumGE(a, b) == a # Undefined /\ b # Undefined /\ a >= b

\* data = {messages: [], points: 0, lastAction: 0}
NewData == [messages |-> <<>>, points |-> 0, lastAction |-> 0]

\* the gate without line 325: the tables are not looked for
GateOpenNoTables(c, selfRooms, room) ==
    /\ HasRank(selfRooms, room, "%")
    /\ IF c.allowModeration.isMap
       THEN room \in c.allowModeration.on
       ELSE c.allowModeration.flag

\* the gate of moderate: the rank of the local account, allowModeration as
\* a map or as a flag, and the two tables
GateOpen(c, selfRooms, room) ==
    /\ HasRank(selfRooms, room, "%")
    /\ IF c.allowModeration.isMap
       THEN room \in c.allowModeration.on
       ELSE c.allowModeration.flag
    /\ c.hasPunishmentPoints
    /\ c.hasPunishmentActions

\* data.messages.unshift({message: message, time: time})
Unshift(data, message, time) ==
    [data EXCEPT !.messages = <<[message |-> message, time |-> time]>> \o @]

\* the cooldown counted forward only: a time before lastAction is not in it
InCooldownForward(data, time) ==
    /\ data.lastAction # 0
    /\ time >= data.lastAction
    /\ time - data.lastAction < PUNISHMENT_COOLDOWN

\* data.lastAction && time - data.lastAction < PUNISHMENT_COOLDOWN
InCooldown(data, time) ==
    data.lastAction # 0 /\ time - data.lastAction < PUNISHMENT_COOLDOWN

\* the flooding rule on the history that already holds this message
FloodFires(messages, time) ==
    /\ Len(messages) >= FLOOD_MINIMUM_MESSAGES
    /\ time - messages[FLOOD_MINIMUM_MESSAGES].time <= FLOOD_MAXIMUM_TIME

StretchFires(message) == LongestStretch(message, 1) >= STRETCHING_MINIMUM

CapsFires(message) == CapsCount(message) >= CAPS_MINIMUM

FloodPunishment ==
    [action |-> "mute", rule |-> "flooding",
     reason |-> "please do not flood the chat"]
StretchPunishment ==
    [action |-> "verbalwarn", rule |-> "stretching",
     reason |-> "please do not stretch"]
CapsPunishment ==
    [action |-> "verbalwarn", rule |-> "caps",
     reason |-> "please do not abuse caps"]

\* the punishments array before it is sorted: what Config.moderate returned,
\* then flooding, stretching, caps
Punishments(data, message, time, plugin) ==
    plugin
    \o (IF FloodFires(data.messages, time) THEN <<FloodPunishment>> ELSE <<>>)
    \o (IF StretchFires(message) THEN <<StretchPunishment>> ELSE <<>>)
    \o (IF CapsFires(message) THEN <<CapsPunishment>> ELSE <<>>)

\* Config.punishmentPoints[action]
PointsOf(c, action) ==
    IF action \in DOMAIN c.punishmentPoints
    THEN c.punishmentPoints[action]
    ELSE Undefined

\* punishments.sort((a, b) => points[b.action] - points[a.action]); the
\* indices that can come first.  The sort is stable: with every severity a
\* number the first of the most severe comes first.  With an undefined
\* severity the comparison is NaN and the order depends on the engine.
FirstChoices(c, ps) ==
    IF \A i \in DOMAIN ps : PointsOf(c, ps[i].action) # Undefined
    THEN {i \in DOMAIN ps :
            /\ \A j \in DOMAIN ps :
                 PointsOf(c, ps[j].action) <= PointsOf(c, ps[i].action)
            /\ \A j \in 1..(i - 1) :
                 PointsOf(c, ps[j].action) < PointsOf(c, ps[i].action)}
    ELSE DOMAIN ps

\* the escalation with > where line 376 has >=
EscalateStrict(c, data, punishment) ==
    LET points == PointsOf(c, punishment.action)
    IN  IF data.points # Undefined /\ points # Undefined /\ data.points > points
        THEN [points |-> data.points + 1,
              action |-> IF (data.points + 1) \in DOMAIN c.punishmentActions
                         THEN c.punishmentActions[data.points + 1]
                         ELSE punishment.action]
        ELSE [points |-> points, action |-> punishment.action]

\* the escalation of lines 372-382: the new points and the action
Escalate(c, data, punishment) ==
    LET points == PointsOf(c, punishment.action)
    IN  IF NumGE(data.points, points)
        THEN [points |-> data.points + 1,
              action |-> IF (data.points + 1) \in DOMAIN c.punishmentActions
                         THEN c.punishmentActions[data.points + 1]
                         ELSE punishment.action]
        ELSE [points |-> points, action |-> punishment.action]

\* Config.punishmentReasons[punishment.rule], else the rule's own reason
ReasonOf(c, punishment) ==
    IF punishment.rule \in DOMAIN c.punishmentReasons
    THEN c.punishmentReasons[punishment.rule]
    ELSE punishment.reason

\* line 384 with the rank of the gate, '%', where it has '@'
DowngradeBelowGate(action, selfRooms, room) ==
    IF action = "roomban" /\ ~HasRank(selfRooms, room, "%")
    THEN "hourmute"
    ELSE action

\* action === 'roomban' && !Users.self.hasRank(room, '@')
Downgrade(action, selfRooms, room) ==
    IF action = "roomban" /\ ~HasRank(selfRooms, room, "@")
    THEN "hourmute"
    ELSE action

\* room.say(user.name + ", " + reason)
WarnText(user, reason) == <<user, ", ", reason>>

\* room.say("/" + action + " " + user.name + ", " + reason)
CommandText(action, user, reason) == <<"/", action, " ", user, ", ", reason>>

\* Apply without line 386: the time of the action is not kept
ApplyUnstamped(data, action, selfRooms, room, user, reason, time) ==
    IF action = "verbalwarn"
    THEN [data |-> data, says |-> <<WarnText(user, reason)>>,
          action |-> action]
    ELSE [data |-> data,
          says |-> <<CommandText(Downgrade(action, selfRooms, room),
                                 user, reason)>>,
          action |-> Downgrade(action, selfRooms, room)]

\* Apply without the return of line 383: a verbal warning goes on to line 385
ApplyNoReturn(data, action, selfRooms, room, user, reason, time) ==
    IF action = "verbalwarn"
    THEN [data |-> [data EXCEPT !.lastAction = time],
          says |-> <<WarnText(user, reason),
                     CommandText(action, user, reason)>>,
          action |-> action]
    ELSE [data |-> [data EXCEPT !.lastAction = time],
          says |-> <<CommandText(Downgrade(action, selfRooms, room),
                                 user, reason)>>,
          action |-> Downgrade(action, selfRooms, room)]

\* Apply when line 386 comes before line 383: every action is stamped
ApplyStampsAll(data, action, selfRooms, room, user, reason, time) ==
    IF action = "verbalwarn"
    THEN [data |-> [data EXCEPT !.lastAction = time],
          says |-> <<WarnText(user, reason)>>,
          action |-> action]
    ELSE [data |-> [data EXCEPT !.lastAction = time],
          says |-> <<CommandText(Downgrade(action, selfRooms, room),
                                 user, reason)>>,
          action |-> Downgrade(action, selfRooms, room)]

\* lines 383-386: what is said to the room and the record afterwards
Apply(data, action, selfRooms, room, user, reason, time) ==
    IF action = "verbalwarn"
    THEN [data |-> data, says |-> <<WarnText(user, reason)>>,
          action |-> action]
    ELSE [data |-> [data EXCEPT !.lastAction = time],
          says |-> <<CommandText(Downgrade(action, selfRooms, room),
                                 user, reason)>>,
          action |-> Downgrade(action, selfRooms, room)]

\* lines 318-368 of moderate: the gate, the record fetched or created, the
\* message put in front of its history, the cooldown, the rules.  had: the
\* record exists; plugin: what Config.moderate returned, as an array.
\* stage: where the call is; kept: a record exists afterwards; ps: the
\* punishments array
Evaluate(c, selfRooms, had, old, message, room, time, plugin) ==
    IF ~GateOpen(c, selfRooms, room)
    THEN [stage |-> "gate", data |-> old, kept |-> had, ps |-> <<>>]
    ELSE
      LET data == Unshift(IF had THEN old ELSE NewData,
                          Normalize(message), time)
      IN  IF InCooldown(data, time)
          THEN [stage |-> "cooldown", data |-> data, kept |-> TRUE,
                ps |-> <<>>]
          ELSE
            LET ps == Punishments(data, Normalize(message), time, plugin)
            IN  [stage |-> IF ps = <<>> THEN "norule" ELSE "rules",
                 data |-> data, kept |-> TRUE, ps |-> ps]

\* lines 370-386 of moderate: the punishment the sort puts first is
\* escalated and applied
Punish(c, selfRooms, room, user, time, ev, first) ==
    LET punishment == ev.ps[first]
        esc == Escalate(c, ev.data, punishment)
        done == Apply([ev.data EXCEPT !.points = esc.points], esc.action,
                      selfRooms, room, user, ReasonOf(c, punishment), time)
    IN  [stage |-> "applied", data |-> done.data, kept |-> TRUE,
         rules |-> [i \in DOMAIN ev.ps |-> ev.ps[i].rule],
         rule |-> punishment.rule, own |-> punishment.action,
         says |-> done.says, action |-> done.action]

\* moderate(message, room, user, time) from its evaluation ev on; first:
\* which punishment the sort puts first
Moderate(c, selfRooms, room, user, time, ev, first) ==
    IF ev.stage = "rules"
    THEN Punish(c, selfRooms, room, user, time, ev, first)
    ELSE [stage |-> ev.stage, data |-> ev.data, kept |-> ev.kept,
          rules |-> <<>>, rule |-> "", own |-> "none", says |-> <<>>,
          action |-> "none"]

\* the values `first` can take
Firsts(c, ev) == IF ev.stage = "rules" THEN FirstChoices(c, ev.ps) ELSE {1}

(***************************************************************************)
(* The command registry (Commands, commands.js): an identifier maps to a   *)
(* handler or to the identifier it is an alias of.  What a handler does is *)
(* its own; the model keeps how it ends: it returns, it throws an Error,   *)
(* or it throws a value without properties (null, undefined).              *)
(***************************************************************************)
Handler(ends) == [kind |-> "handler", target |-> <<>>, ends |-> ends]
Alias(target) == [kind |-> "alias", target |-> target, ends |-> ""]

Commands ==
    (<<"s","a","y">> :> Handler("returns")) @@
    (<<"s">> :> Alias(<<"s","a","y">>)) @@
    (<<"s","s">> :> Alias(<<"s">>)) @@
    (<<"g">> :> Alias(<<"g","o","n","e">>)) @@
    (<<"b","a","d">> :> Handler("throws Error")) @@
    (<<"n","i","l">> :> Handler("throws null"))

\* message.indexOf(' '), 0 when there is none
SpaceIndex(s) ==
    IF \E i \in DOMAIN s : s[i] = " "
    THEN CHOOSE i \in DOMAIN s : s[i] = " " /\ \A j \in 1..(i - 1) : s[j] # " "
    ELSE 0

NoRun == [handlers |-> <<>>, result |-> "none", raised |-> FALSE]

\* typeof Commands[command] === 'function'
IsHandler(command) ==
    command \in DOMAIN Commands /\ Commands[command].kind = "handler"

\* Context.run() without arguments, on a context made by parseCommand: the
\* handler is called inside try; the catch reads e.stack, which itself
\* throws when the value thrown has no properties, and then run returns
\* nothing: the TypeError leaves run, parseCommand and parse
Run(command, target) ==
    IF ~IsHandler(command) THEN [NoRun EXCEPT !.result = "false"]
    ELSE [handlers |-> <<[command |-> command, target |-> Trim(target)]>>,
          result |-> IF Commands[command].ends = "returns" THEN "true"
                     ELSE IF Commands[command].ends = "throws Error"
                     THEN "false" ELSE "none",
          raised |-> Commands[command].ends = "throws null"]

\* Resolve when an alias of an alias is followed too
RECURSIVE ResolveDeep(_)
ResolveDeep(command) ==
    IF command \in DOMAIN Commands /\ Commands[command].kind = "alias"
    THEN ResolveDeep(Commands[command].target)
    ELSE command

\* the command an entry resolves to: lines 248-252, one alias followed
Resolve(command) ==
    IF command \in DOMAIN Commands /\ Commands[command].kind = "alias"
    THEN Commands[command].target
    ELSE command

\* parseCommand(message, room, user, time); commandCharacter is one character
ParseCommand(commandCharacter, message) ==
    LET msg == Trim(message)
    IN  IF msg = <<>> \/ Head(msg) # commandCharacter THEN NoRun
        ELSE
          LET rest == Tail(msg)
              sp == SpaceIndex(rest)
              word == IF sp # 0 THEN SubSeq(rest, 1, sp - 1) ELSE rest
              target == IF sp # 0 THEN SubSeq(rest, sp + 1, Len(rest))
                        ELSE <<>>
              command == ToId(word)
          IN  IF command \notin DOMAIN Commands THEN NoRun
              ELSE IF ~IsHandler(Resolve(command)) THEN NoRun
              ELSE Run(Resolve(command), target)

(***************************************************************************)
(* parseFormats: the list of a formats line made into the catalog.         *)
(***************************************************************************)
\* the digits parseInt knows, in the order of their values
DigitChars == <<"0","1","2","3","4","5","6","7","8","9",
                "a","b","c","d","e","f">>

\* the value of the character c as a digit of the radix, -1 when it is none
DigitValue(c, radix) ==
    IF \E i \in 1..radix : DigitChars[i] = ToLowerChar(c)
    THEN (CHOOSE i \in 1..radix : DigitChars[i] = ToLowerChar(c)) - 1
    ELSE -1

\* how many characters at the start of s are digits of the radix
RECURSIVE DigitPrefix(_, _)
DigitPrefix(s, radix) ==
    IF s # <<>> /\ DigitValue(Head(s), radix) >= 0
    THEN 1 + DigitPrefix(Tail(s), radix)
    ELSE 0

\* the number the n digits at the start of s write
RECURSIVE DigitsNumber(_, _, _)
DigitsNumber(s, n, radix) ==
    IF n = 0 THEN 0
    ELSE DigitsNumber(s, n - 1, radix) * radix + DigitValue(s[n], radix)

\* parseInt gives NaN
NaN == [nan |-> TRUE, value |-> 0]

\* s starts with 0x or 0X
HasHexPrefix(s) == Len(s) >= 2 /\ s[1] = "0" /\ s[2] \in {"x", "X"}

\* parseInt(s, radix), radix 0 for parseInt(s): blanks are skipped, then a
\* sign, then 0x when the radix allows it, then the longest run of digits
ParseInt(s, radix) ==
    LET t == TrimLeft(s)
        signed == t # <<>> /\ Head(t) \in {"+", "-"}
        u == IF signed THEN Tail(t) ELSE t
        hex == radix \in {0, 16} /\ HasHexPrefix(u)
        r == IF hex THEN 16 ELSE IF radix = 0 THEN 10 ELSE radix
        v == IF hex THEN SubSeq(u, 3, Len(u)) ELSE u
        n == DigitPrefix(v, r)
    IN  IF n = 0 THEN NaN
        ELSE [nan |-> FALSE,
              value |-> IF signed /\ Head(t) = "-"
                        THEN 0 - DigitsNumber(v, n, r)
                        ELSE DigitsNumber(v, n, r)]

\* code & b for b a power of two is not 0 (two's complement below 0)
HasBit(code, b) ==
    IF code >= 0 THEN (code \div b) % 2 = 1
    ELSE ((0 - code - 1) \div b) % 2 = 0

\* name.lastIndexOf(','), 0 when there is none
LastCommaIndex(name) ==
    IF \E i \in DOMAIN name : name[i] = ","
    THEN CHOOSE i \in DOMAIN name :
           name[i] = "," /\ \A j \in (i + 1)..Len(name) : name[j] # ","
    ELSE 0

\* name.substr(name.length - n)
LastChars(name, n) ==
    IF Len(name) <= n THEN name ELSE SubSeq(name, Len(name) - n + 1, Len(name))

\* name.substr(0, name.length - n)
DropLast(name, n) ==
    IF Len(name) <= n THEN <<>> ELSE SubSeq(name, 1, Len(name) - n)

\* lines 267-269: the element is skipped; the element makes the next one
\* the name of a section
IsSkipped(e) == e = <<",","L","L">>
\* line 269 without its second alternative
IsSectionMarkEmptyOnly(e) == e = <<>>
IsSectionMark(e) ==
    \/ e = <<>>
    \/ e # <<>> /\ Head(e) = "," /\ ~ParseInt(Tail(e), 0).nan

\* lines 272-295 for a suffix that is a hexadecimal number
HexDescriptor(name, code) ==
    [name |-> SubSeq(name, 1, LastCommaIndex(name) - 1),
     searchShow |-> HasBit(code, 2),
     challengeShow |-> HasBit(code, 4),
     tournamentShow |-> HasBit(code, 8)]

\* lines 284-294: the suffixes of older servers
LegacyDescriptor(name) ==
    LET teams == IF LastChars(name, 2) = <<",","#">>
                 THEN DropLast(name, 2) ELSE name
    IN  IF LastChars(teams, 2) = <<",",",">>
        THEN [name |-> DropLast(teams, 2), searchShow |-> TRUE,
              challengeShow |-> FALSE, tournamentShow |-> TRUE]
        ELSE IF LastChars(teams, 1) = <<",">>
        THEN [name |-> DropLast(teams, 1), searchShow |-> FALSE,
              challengeShow |-> TRUE, tournamentShow |-> TRUE]
        ELSE [name |-> teams, searchShow |-> TRUE,
              challengeShow |-> TRUE, tournamentShow |-> TRUE]

\* lines 272-295: the name and the flags of a format descriptor
Descriptor(e) ==
    LET code == IF LastCommaIndex(e) > 0
                THEN ParseInt(SubSeq(e, LastCommaIndex(e) + 1, Len(e)), 16)
                ELSE NaN
    IN  IF ~code.nan THEN HexDescriptor(e, code.value)
        ELSE LegacyDescriptor(e)

\* lines 296-305: formatsData[id] = {...}, unless the identifier is empty
AddFormat(data, e, section) ==
    LET d == Descriptor(e)
        id == ToId(d.name)
    IN  IF id = <<>> THEN data
        ELSE [x \in DOMAIN data \cup {id} |->
                IF x = id
                THEN [name |-> d.name, id |-> id, section |-> section,
                      searchShow |-> d.searchShow,
                      challengeShow |-> d.challengeShow,
                      tournamentShow |-> d.tournamentShow]
                ELSE data[x]]

\* formatsData = {}
EmptyCatalog == [x \in {} |-> [name |-> <<>>]]

\* the loop when only the first name of a section is kept
RECURSIVE FormatsLoopFirstSection(_, _, _, _, _)
FormatsLoopFirstSection(list, i, isSection, section, data) ==
    IF i > Len(list) THEN data
    ELSE IF isSection
    THEN FormatsLoopFirstSection(list, i + 1, FALSE,
                                 IF section = <<>> THEN list[i] ELSE section,
                                 data)
    ELSE IF IsSkipped(list[i])
    THEN FormatsLoopFirstSection(list, i + 1, FALSE, section, data)
    ELSE IF IsSectionMark(list[i])
    THEN FormatsLoopFirstSection(list, i + 1, TRUE, section, data)
    ELSE FormatsLoopFirstSection(list, i + 1, FALSE, section,
                                 AddFormat(data, list[i], section))

\* the loop of lines 263-307 from the element i on
RECURSIVE FormatsLoop(_, _, _, _, _)
FormatsLoop(list, i, isSection, section, data) ==
    IF i > Len(list) THEN data
    ELSE IF isSection THEN FormatsLoop(list, i + 1, FALSE, list[i], data)
    ELSE IF IsSkipped(list[i])
    THEN FormatsLoop(list, i + 1, FALSE, section, data)
    ELSE IF IsSectionMark(list[i])
    THEN FormatsLoop(list, i + 1, TRUE, section, data)
    ELSE FormatsLoop(list, i + 1, FALSE, section,
                     AddFormat(data, list[i], section))

\* parseFormats(): formatsData after it, from formatsData before it
Catalog(list, old) ==
    IF list = <<>> THEN old
    ELSE FormatsLoop(list, 1, FALSE, <<>>, EmptyCatalog)

(***************************************************************************)
(* State.                                                                  *)
(***************************************************************************)
VARIABLES
    cfg,        \* Config, fixed when the process starts
    users,      \* Users.users: the identifiers of the registered users
    roomUsers,  \* room.users of every room: user -> rank
    userRooms,  \* user.rooms of every registered user: room -> rank
    roomData,   \* user.roomData: <<user, room>> -> ModerationRecord
    now,        \* the clock read by Date.now()
    exited,     \* process.exit() was called
    last,       \* what the last call of parse was given and what it did
    hist,       \* per ModerationRecord, the calls of moderate that passed the
                \* gate, oldest first: time, rules fired, action applied
    count,      \* lines decoded so far
    formatsList,    \* this.formatsList: the fields of the last formats line
    formatsData     \* this.formatsData: the catalog, identifier -> entry

vars == <<cfg, users, roomUsers, userRooms, roomData, now, exited, last,
          hist, count, formatsList, formatsData>>

Rooms == {"lobby", "help"}

\* the timestamps the lines carry and the clock shows
\* they are times after the epoch: positive
Times ==
    {t \in {k * PUNISHMENT_COOLDOWN + d : k \in 0..MaxTick, d \in {0, 1000}} :
       t > 0}

\* Users.self
SelfId(c) == ToId(c.username)

\* partial maps (Map, object): set and delete
Put(f, k, v) == [x \in DOMAIN f \cup {k} |-> IF x = k THEN v ELSE f[x]]
Remove(f, k) == [x \in DOMAIN f \ {k} |-> f[x]]
EmptyMap == [x \in {} |-> ""]

\* room.listeners of every room: the keys of the pending listeners
Listeners == [r \in Rooms |-> IF r = "lobby" THEN {<<"o","k">>} ELSE {}]

\* one call of parse that did nothing yet
Call(type, room, args) ==
    [type |-> type, room |-> room, args |-> args, vetoed |-> FALSE,
     user |-> <<>>, time |-> 0, message |-> <<>>, listeners |-> <<>>,
     handlers |-> <<>>, result |-> "none", raised |-> FALSE,
     moderated |-> FALSE, stage |-> "", rules |-> <<>>, rule |-> "",
     own |-> "none",
     action |-> "none", says |-> <<>>, sent |-> <<>>, cleared |-> FALSE,
     before |-> [type |-> "", room |-> "", args |-> <<>>, vetoed |-> FALSE]]

(***************************************************************************)
(* The user and room registries (users.js, rooms.js).                      *)
(***************************************************************************)
\* the three membership variables as one value
Membership == [users |-> users, roomUsers |-> roomUsers,
               userRooms |-> userRooms]

\* Users.add(name): the user of that identifier, registered when new
UsersAdd(m, name) ==
    IF ToId(name) \in m.users THEN m
    ELSE [m EXCEPT !.users = @ \cup {ToId(name)},
                   !.userRooms = Put(@, ToId(name), EmptyMap)]

\* room.users.set(user, rank); user.rooms.set(room, rank)
SetBoth(m, room, user, rank) ==
    [m EXCEPT !.roomUsers[room] = Put(@, user, rank),
              !.userRooms[user] = Put(@, room, rank)]

\* room.onJoin(user, rank)
OnJoin(m, room, user, rank) == SetBoth(m, room, user, rank)

\* room.onLeave(user)
OnLeave(m, room, user) ==
    [m EXCEPT !.roomUsers[room] = Remove(@, user),
              !.userRooms[user] = Remove(@, room)]

\* a map keyed by users after the user `old` took the identifier `new`
RekeyUser(f, old, new) ==
    [x \in (DOMAIN f \ {old}) \cup (IF old \in DOMAIN f THEN {new} ELSE {})
       |-> IF x = new /\ old \in DOMAIN f THEN f[old] ELSE f[x]]

\* a map keyed by <<user, room>> after the same change
RekeyPairs(f, old, new) ==
    [x \in {p \in DOMAIN f : p[1] # old /\ p[1] # new}
           \cup {<<new, p[2]>> : p \in {q \in DOMAIN f : q[1] = old}}
       |-> IF x[1] = new THEN f[<<old, x[2]>>] ELSE f[x]]

\* a map keyed by <<user, room>> without the entries of `user`
DropPairs(f, user) == [x \in {p \in DOMAIN f : p[1] # user} |-> f[x]]

\* room.onRename(user, newName): the user takes the identifier of the new
\* name, or gives way to the user already registered under it; the rank
\* is the first character of the new name
OnRename(m, room, user, newName) ==
    LET id == ToId(newName)
        rank == Head(newName)
        moved ==
            IF id = user THEN m
            ELSE IF id \in m.users
            THEN [users |-> m.users \ {user},
                  roomUsers |-> [r \in Rooms |-> Remove(m.roomUsers[r], user)],
                  userRooms |-> Remove(m.userRooms, user)]
            ELSE [users |-> (m.users \ {user}) \cup {id},
                  roomUsers |-> [r \in Rooms |->
                                   RekeyUser(m.roomUsers[r], user, id)],
                  userRooms |-> RekeyUser(m.userRooms, user, id)]
    IN  SetBoth(moved, room, id, rank)

\* user.roomData after the same rename
RenameData(f, known, user, newName) ==
    LET id == ToId(newName)
    IN  IF id = user THEN f
        ELSE IF id \in known THEN DropPairs(f, user)
        ELSE RekeyPairs(f, user, id)

(***************************************************************************)
(* MessageParser.parse, one action per message type.                       *)
(***************************************************************************)
\* what every call of parse does first and last: the process is running,
\* and the line is counted; `before` keeps which line came before it
DecodedLine(call) ==
    /\ ~exited
    /\ count' = count + 1
    /\ last' = [call EXCEPT !.before = [type |-> last.type,
                                        room |-> last.room,
                                        args |-> last.args,
                                        vetoed |-> last.vetoed]]

SetMembership(m) ==
    /\ users' = m.users
    /\ roomUsers' = m.roomUsers
    /\ userRooms' = m.userRooms

\* a call of parse for a line other than a formats line
Decoded(call) ==
    /\ DecodedLine(call)
    /\ UNCHANGED <<formatsList, formatsData>>

\* Config.parseMessage(room, messageType, splitMessage) === false
ParseVetoed(type, room) ==
    /\ cfg.parseMessage
    /\ Decoded([Call(type, room, <<>>) EXCEPT !.vetoed = TRUE])
    /\ UNCHANGED <<cfg, users, roomUsers, userRooms, roomData, now, exited,
                   hist>>

\* Client.send('|/join ' + Config.rooms[i]) for every configured room
JoinRequests(rooms) == [i \in DOMAIN rooms |-> <<"|/join ", rooms[i]>>]

\* case 'updateuser' without line 115: the username is not compared
ParseUpdateUserAnyName(name, flag) ==
    /\ Decoded([Call("updateuser", "", <<name, flag>>) EXCEPT
                  !.sent = IF flag = <<"1">>
                           THEN JoinRequests(cfg.rooms) ELSE <<>>])
    /\ exited' = (flag # <<"1">>)
    /\ UNCHANGED <<cfg, users, roomUsers, userRooms, roomData, now, hist>>

\* case 'updateuser'
ParseUpdateUser(name, flag) ==
    /\ Decoded([Call("updateuser", "", <<name, flag>>) EXCEPT
                  !.sent = IF name = cfg.username /\ flag = <<"1">>
                           THEN JoinRequests(cfg.rooms) ELSE <<>>])
    /\ exited' = (name = cfg.username /\ flag # <<"1">>)
    /\ UNCHANGED <<cfg, users, roomUsers, userRooms, roomData, now, hist>>

\* case 'init'
ParseInit(room) ==
    /\ Decoded(Call("init", room, <<>>))
    /\ SetMembership(OnJoin(Membership, room, SelfId(cfg), " "))
    /\ UNCHANGED <<cfg, roomData, now, exited, hist>>

\* the loop of case 'users' when a user already registered is passed over
RECURSIVE UsersLoopNewOnly(_, _, _, _)
UsersLoopNewOnly(m, room, entries, i) ==
    IF i > Len(entries) THEN m
    ELSE UsersLoopNewOnly(
           IF ToId(Tail(entries[i])) \in DOMAIN m.roomUsers[room] THEN m
           ELSE SetBoth(UsersAdd(m, Tail(entries[i])), room,
                        ToId(Tail(entries[i])), Head(entries[i])),
           room, entries, i + 1)

\* the loop of case 'users' from entry i on: entries[1] is the count
RECURSIVE UsersLoop(_, _, _, _)
UsersLoop(m, room, entries, i) ==
    IF i > Len(entries) THEN m
    ELSE UsersLoop(SetBoth(UsersAdd(m, Tail(entries[i])), room,
                           ToId(Tail(entries[i])), Head(entries[i])),
                   room, entries, i + 1)

\* case 'users' on a membership: splitMessage[0] split at the commas
UsersSnapshot(m, room, entries) ==
    IF entries = << <<"0">> >> THEN m ELSE UsersLoop(m, room, entries, 2)

ParseUsers(room, entries) ==
    /\ Decoded(Call("users", room, entries))
    /\ SetMembership(UsersSnapshot(Membership, room, entries))
    /\ UNCHANGED <<cfg, roomData, now, exited, hist>>

\* case 'formats': the fields are kept, parseFormats makes the catalog and
\* Tools.FormatCache.clear() ends it, unless there is no field
ParseFormats(fields) ==
    /\ DecodedLine([Call("formats", "", fields) EXCEPT
                      !.cleared = fields # <<>>])
    /\ formatsList' = fields
    /\ formatsData' = Catalog(fields, formatsData)
    /\ UNCHANGED <<cfg, users, roomUsers, userRooms, roomData, now, exited,
                   hist>>

\* case 'J', 'j'
ParseJoin(room, name) ==
    /\ Decoded(Call("J", room, <<name>>))
    /\ IF ToId(name) = <<>> THEN UNCHANGED <<users, roomUsers, userRooms>>
       ELSE SetMembership(OnJoin(UsersAdd(Membership, name), room,
                                 ToId(name), Head(name)))
    /\ UNCHANGED <<cfg, roomData, now, exited, hist>>

\* case 'L', 'l'
ParseLeave(room, name) ==
    /\ Decoded(Call("L", room, <<name>>))
    /\ IF ToId(name) = <<>> THEN UNCHANGED <<users, roomUsers, userRooms>>
       ELSE SetMembership(OnLeave(UsersAdd(Membership, name), room,
                                  ToId(name)))
    /\ UNCHANGED <<cfg, roomData, now, exited, hist>>

\* case 'N', 'n': splitMessage[0] is the new name, splitMessage[1] the old
ParseRename(room, newName, oldName) ==
    /\ Decoded(Call("N", room, <<newName, oldName>>))
    /\ IF ToId(oldName) = <<>>
       THEN UNCHANGED <<users, roomUsers, userRooms, roomData, hist>>
       ELSE /\ SetMembership(OnRename(UsersAdd(Membership, oldName), room,
                                      ToId(oldName), newName))
            /\ roomData' = RenameData(roomData, users, ToId(oldName), newName)
            /\ hist' = RenameData(hist, users, ToId(oldName), newName)
    /\ UNCHANGED <<cfg, now, exited>>

\* what Config.moderate can return, as the array moderate concatenates:
\* nothing when the hook is not configured or returns no array
PluginPunishments ==
    {[action |-> "roomban", rule |-> "banword", reason |-> "banned word"],
     [action |-> "warn", rule |-> "link", reason |-> "no links"]}

PluginResults(c) ==
    IF c.moderate THEN {<<>>} \cup {<<p>> : p \in PluginPunishments}
    ELSE {<<>>}

\* user.rooms.get(room) !== rank, then user.rooms.set(room, rank)
SetUserRank(ur, user, room, rank) == [ur EXCEPT ![user] = Put(@, room, rank)]

\* the lines 188-190 and 204-206 for a speaker other than the local account:
\* parseCommand, then moderate unless the speaker has rank '+'
Speak(call, ur, room, user, message, time) ==
    \E cmd \in {ParseCommand(cfg.commandCharacter, message)} :
    \E ran \in {[call EXCEPT !.handlers = cmd.handlers,
                             !.result = cmd.result,
                             !.raised = cmd.raised]} :
      IF cmd.raised \/ HasRank(ur[user], room, "+")
      THEN /\ Decoded(ran)
           /\ UNCHANGED <<roomData, hist>>
      ELSE \E plugin \in PluginResults(cfg) :
           \E ev \in {Evaluate(cfg, ur[SelfId(cfg)],
                               <<user, room>> \in DOMAIN roomData,
                               IF <<user, room>> \in DOMAIN roomData
                               THEN roomData[<<user, room>>] ELSE NewData,
                               message, room, time, plugin)} :
           \E first \in Firsts(cfg, ev) :
           \E res \in {Moderate(cfg, ur[SelfId(cfg)], room, user, time, ev,
                                first)} :
             /\ Decoded([ran EXCEPT !.moderated = TRUE,
                                    !.stage = res.stage,
                                    !.rules = res.rules,
                                    !.rule = res.rule,
                                    !.own = res.own,
                                    !.action = res.action,
                                    !.says = res.says])
             /\ roomData' = IF res.kept
                            THEN Put(roomData, <<user, room>>, res.data)
                            ELSE roomData
             /\ hist' = IF res.stage = "gate" THEN hist
                        ELSE Put(hist, <<user, room>>,
                                 Append(IF <<user, room>> \in DOMAIN hist
                                        THEN hist[<<user, room>>] ELSE <<>>,
                                        [time |-> time,
                                         rules |-> res.rules,
                                         action |-> res.action]))

\* the chat cases without the test user.id === Users.self.id: the lines of
\* the local account are handled like those of any user
ChatNoSelfTest(type, room, name, fields, time) ==
    \E user \in {ToId(name)} :
    \E call \in {[Call(type, room, <<name>> \o fields) EXCEPT
                    !.user = user, !.time = time,
                    !.message = JoinFields(fields)]} :
      IF user \notin users
      THEN /\ Decoded(call)
           /\ UNCHANGED <<userRooms, roomData, hist>>
      ELSE \E ur \in {SetUserRank(userRooms, user, room, Head(name))} :
           /\ userRooms' = ur
           /\ Speak(call, ur, room, user, call.message, time)

\* case 'c' and case 'c:' once the time is known: name is the field that
\* holds the rank and the name of the speaker, fields the rest of the line
Chat(type, room, name, fields, time) ==
    \E user \in {ToId(name)} :
    \E call \in {[Call(type, room, <<name>> \o fields) EXCEPT
                    !.user = user, !.time = time,
                    !.message = JoinFields(fields)]} :
      IF user \notin users
      THEN /\ Decoded(call)
           /\ UNCHANGED <<userRooms, roomData, hist>>
      ELSE \E ur \in {SetUserRank(userRooms, user, room, Head(name))} :
           /\ userRooms' = ur
           /\ IF user = SelfId(cfg)
              THEN /\ Decoded([call EXCEPT !.listeners =
                         IF ToId(call.message) \in Listeners[room]
                         THEN <<ToId(call.message)>> ELSE <<>>])
                   /\ UNCHANGED <<roomData, hist>>
              ELSE Speak(call, ur, room, user, call.message, time)

\* case 'c': the time is Date.now(), which has moved on or not
ParseChat(room, name, fields) ==
    \E t \in Times :
      /\ t >= now
      /\ now' = t
      /\ Chat("c", room, name, fields, t)
      /\ UNCHANGED <<cfg, users, roomUsers, exited>>

\* case 'c:': the time is parseInt(splitMessage[0]) * 1000
ParseChatTimed(room, secs, name, fields) ==
    /\ Chat("c:", room, name, fields, secs * 1000)
    /\ UNCHANGED <<cfg, users, roomUsers, now, exited>>

\* case 'pm': splitMessage[0] is the sender, the message starts at [2]
ParsePm(name, fields) ==
    LET cmd == IF ToId(name) = <<>> \/ ToId(name) = SelfId(cfg) THEN NoRun
               ELSE ParseCommand(cfg.commandCharacter, JoinFields(fields))
    IN  /\ Decoded([Call("pm", "", <<name>> \o fields) EXCEPT
                      !.user = ToId(name),
                      !.message = JoinFields(fields),
                      !.handlers = cmd.handlers,
                      !.result = cmd.result,
                      !.raised = cmd.raised])
        /\ IF ToId(name) = <<>> THEN UNCHANGED <<users, roomUsers, userRooms>>
           ELSE SetMembership(UsersAdd(Membership, name))
        /\ UNCHANGED <<cfg, roomData, now, exited, hist>>

(***************************************************************************)
(* Configurations, names and messages the specifications draw from.        *)
(***************************************************************************)
\* punishmentPoints and punishmentActions as a ladder: every action has a
\* severity and every point count an action
LadderPoints ==
    ("verbalwarn" :> 0) @@ ("warn" :> 1) @@ ("mute" :> 2) @@
    ("hourmute" :> 3) @@ ("roomban" :> 4)
LadderActions ==
    (0 :> "verbalwarn") @@ (1 :> "warn") @@ (2 :> "mute") @@
    (3 :> "hourmute") @@ (4 :> "roomban")

\* tables with gaps: 'warn' has no severity, few point counts an action
SparsePoints == ("verbalwarn" :> 1) @@ ("mute" :> 3) @@ ("roomban" :> 5)
SparseActions ==
    (4 :> "verbalwarn") @@ (5 :> "roomban") @@ (6 :> "verbalwarn")

BotName == <<"B","o","t">>

LadderConfig ==
    [username |-> BotName, commandCharacter |-> "!",
     rooms |-> <<"lobby", "help">>,
     parseMessage |-> FALSE, moderate |-> FALSE,
     allowModeration |-> [isMap |-> FALSE, flag |-> TRUE, on |-> {}],
     hasPunishmentPoints |-> TRUE, hasPunishmentActions |-> TRUE,
     punishmentPoints |-> LadderPoints, punishmentActions |-> LadderActions,
     punishmentReasons |-> EmptyMap]

SparseConfig ==
    [LadderConfig EXCEPT
       !.moderate = TRUE,
       !.allowModeration = [isMap |-> TRUE, flag |-> FALSE, on |-> {"lobby"}],
       !.punishmentPoints = SparsePoints,
       !.punishmentActions = SparseActions,
       !.punishmentReasons = ("caps" :> "caps lock")]

\* configurations that lack what moderate needs: moderation switched off,
\* switched on for another room only, no table of points, no table of
\* actions
ClosedConfigs ==
    {[LadderConfig EXCEPT !.allowModeration.flag = FALSE],
     [SparseConfig EXCEPT !.allowModeration.on = {"help"}],
     [LadderConfig EXCEPT !.hasPunishmentPoints = FALSE,
                          !.punishmentPoints = EmptyMap],
     [SparseConfig EXCEPT !.hasPunishmentActions = FALSE,
                          !.punishmentActions = EmptyMap]}

\* speakers as the lines name them: a rank, then the name
Al == <<" ","A","l">>
Bot == <<"%","B","o","t">>

\* message bodies
Hi == <<"h","i">>
\* 30 capitals, no run repeated
Caps == UpperLetters \o <<"A","C","E","G">>
\* a run of two characters, 10 times over: 20 characters
Stretch == Rep(<<"a","h">>, 10)

\* the membership after the room was joined and its users were listed:
\* the local account with the rank selfRank, the user Al without rank
Joined(selfRank) ==
    [users |-> {ToId(BotName), ToId(Al)},
     roomUsers |-> [r \in Rooms |->
                      IF r = "lobby"
                      THEN (ToId(BotName) :> selfRank) @@ (ToId(Al) :> " ")
                      ELSE EmptyMap],
     userRooms |-> (ToId(BotName) :> ("lobby" :> selfRank)) @@
                   (ToId(Al) :> ("lobby" :> " "))]

Start(c, m) ==
    /\ cfg = c
    /\ users = m.users
    /\ roomUsers = m.roomUsers
    /\ userRooms = m.userRooms
    /\ roomData = EmptyMap
    /\ hist = EmptyMap
    /\ now = PUNISHMENT_COOLDOWN
    /\ exited = FALSE
    /\ last = Call("", "", <<>>)
    /\ count = 0
    /\ formatsList = <<>>
    /\ formatsData = EmptyCatalog

(***************************************************************************)
(* SpecFlood: one user talks in one moderated room, in plain messages.     *)
(***************************************************************************)
InitFlood == Start(LadderConfig, Joined("%"))

FloodChat == count < MaxChat /\ ParseChat("lobby", Al, <<Hi>>)

FloodChatTimed ==
    /\ count < MaxChat
    /\ \E t \in Times : ParseChatTimed("lobby", t \div 1000, Al, <<Hi>>)

NextFlood == FloodChat \/ FloodChatTimed

SpecFlood == InitFlood /\ [][NextFlood]_vars

(***************************************************************************)
(* SpecMod: the moderation engine under several configurations, with the   *)
(* plug-in rule and messages that break the rules.                         *)
(***************************************************************************)
ModMessages == {<<Hi>>, <<Caps>>, <<Stretch>>}

InitMod ==
    \/ Start(LadderConfig, Joined("%"))
    \/ \E selfRank \in {" ", "%", "@"} : Start(SparseConfig, Joined(selfRank))
    \/ \E c \in ClosedConfigs : Start(c, Joined("@"))

ModChatTimed ==
    /\ count < MaxMod
    /\ \E t \in Times : \E fields \in ModMessages :
         ParseChatTimed("lobby", t \div 1000, Al, fields)

NextMod == ModChatTimed

SpecMod == InitMod /\ [][NextMod]_vars

(***************************************************************************)
(* Spec: the decoder from the start of the process: login, membership      *)
(* lines and chat lines, with and without the pre-parse hook.              *)
(***************************************************************************)
\* the membership when the process starts: the local account, in no room
Fresh ==
    [users |-> {ToId(BotName)},
     roomUsers |-> [r \in Rooms |-> EmptyMap],
     userRooms |-> (ToId(BotName) :> EmptyMap)]

HookConfig == [LadderConfig EXCEPT !.parseMessage = TRUE]

Init == \E c \in {LadderConfig, HookConfig} : Start(c, Fresh)

\* names as the lines carry them
AlVoice == <<"+","A","l">>
Alf == <<" ","A","l","f">>
NoName == <<" ","?">>

\* users snapshots, split at the commas: the count, then the users
Snapshots ==
    {<< <<"0">> >>,
     << <<"2">>, Al, Bot >>,
     << <<"2">>, AlVoice, <<"@","B","o","t">> >>,
     << <<"1">>, Alf >>}

\* the acknowledgement a listener of the lobby waits for, as the server
\* words it, and a self-issued line no listener waits for
Ack == <<"O","k","!">>
SayHi == <<"!","s","a","y"," ","h","i">>

Active == count < MaxLines

Next ==
    \/ Active /\ \E type \in {"updateuser", "users", "J", "c", "c:"} :
                   ParseVetoed(type, "lobby")
    \/ Active /\ \E name \in {BotName, <<"A","l">>} :
                 \E flag \in {<<"1">>, <<"0">>} : ParseUpdateUser(name, flag)
    \/ Active /\ ParseInit("lobby")
    \/ Active /\ \E entries \in Snapshots : ParseUsers("lobby", entries)
    \/ Active /\ \E name \in {Al, AlVoice, NoName} : ParseJoin("lobby", name)
    \/ Active /\ \E name \in {Al, NoName} : ParseLeave("lobby", name)
    \/ Active /\ \E names \in {<<Alf, Al>>, <<AlVoice, Al>>, <<Al, NoName>>} :
                   ParseRename("lobby", names[1], names[2])
    \/ Active /\ now' = now
              /\ \E name \in {Al, AlVoice, Bot} :
                 \E fields \in {<<Hi>>, <<Ack>>, <<SayHi>>} :
                   ParseChat("lobby", name, fields)
    \/ Active /\ \E name \in {AlVoice, Bot} :
                 \E fields \in {<<Hi>>, <<Ack>>} :
                   ParseChatTimed("lobby", now \div 1000, name, fields)
    \/ Active /\ \E name \in {Al, Bot} : ParsePm(name, <<SayHi>>)

Spec == Init /\ [][Next]_vars

(***************************************************************************)
(* SpecCmd: known users send command messages, in the room and in private. *)
(***************************************************************************)
\* messages for every kind of registry entry: a handler, an alias of a
\* handler, an alias of an alias, an alias of nothing, no entry, a handler
\* that throws an Error, a handler that throws null; with blanks and
\* capitals around the command; and a message that is no command
ViaAlias == <<"!","s"," ","h","i">>
ViaTwoAliases == <<"!","s","s">>
ViaDangling == <<"!","g">>
NoEntry == <<"!","z","z">>
Throwing == <<"!","b","a","d">>
ThrowingNull == <<"!","n","i","l">>
Padded == <<" ","!","S","A","Y"," ","h","i"," ">>

CmdMessages ==
    {SayHi, ViaAlias, ViaTwoAliases, ViaDangling, NoEntry, Throwing,
     ThrowingNull, Padded, Hi}

InitCmd == Start(LadderConfig, Joined("%"))

CmdChat ==
    /\ count < MaxCmd
    /\ now' = now
    /\ \E name \in {Al, AlVoice} : \E msg \in CmdMessages :
         ParseChat("lobby", name, <<msg>>)

CmdPm ==
    /\ count < MaxCmd
    /\ \E name \in {Al, Bot} : \E msg \in CmdMessages : ParsePm(name, <<msg>>)

NextCmd == CmdChat \/ CmdPm

SpecCmd == InitCmd /\ [][NextCmd]_vars

(***************************************************************************)
(* SpecFormats: the server sends formats lines.                            *)
(***************************************************************************)
\* fields of formats lines: the marks of a section, a name, descriptors
\* with a hexadecimal suffix, without suffix and with an older suffix
Blank == <<>>
Column == <<",","1">>
LocalLadder == <<",","L","L">>
SectionA == <<"S","e","c","t","i","o","n","A">>
Abc8 == <<"A","b","c",",","8">>
Def == <<"D","e","f">>
AbcOld == <<"A","b","c",",",",">>
SectionB == <<"S","e","c","t","i","o","n","B">>

FormatFields == {Blank, Column, LocalLadder, SectionA, Abc8, Def, AbcOld}

\* a list with two sections
TwoSections == <<Blank, SectionA, Abc8, Column, SectionB, Def>>

\* the lists of at most MaxFields fields, a list of four and one of six
FormatLists ==
    UNION {[1..n -> FormatFields] : n \in 0..MaxFields}
    \cup {<<Blank, SectionA, Abc8, Def>>, TwoSections}

InitFormats == Start(LadderConfig, Fresh)

FormatsLine ==
    /\ count < MaxFormatLines
    /\ \E fields \in FormatLists : ParseFormats(fields)

NextFormats == FormatsLine

SpecFormats == InitFormats /\ [][NextFormats]_vars

(***************************************************************************)
(* Properties.                                                             *)
(***************************************************************************)
\* two times less than w apart
Within(a, b, w) == a - b < w /\ b - a < w

\* the message of the i-th call of moderate on the record k: the history
\* holds the newest message first
MessageOf(k, i) == roomData[k].messages[Len(hist[k]) - i + 1].message

\* C1, as claimed: of two calls of moderate on the same record in which a
\* rule fired and whose times are less than 5 seconds apart, at most one
\* applied a punishment, whatever the actions
C1_OnePunishmentInCooldown ==
    \A k \in DOMAIN hist : \A i, j \in DOMAIN hist[k] :
      ( /\ i < j
        /\ hist[k][i].rules # <<>>
        /\ hist[k][j].rules # <<>>
        /\ Within(hist[k][i].time, hist[k][j].time, PUNISHMENT_COOLDOWN) )
      => ~(hist[k][i].action # "none" /\ hist[k][j].action # "none")

\* C1, amended: once a call applied an action other than verbalwarn, no
\* later call on the same record whose time is less than 5 seconds from its
\* time applies any punishment
C1_OnePunishmentAfterAction ==
    \A k \in DOMAIN hist : \A i, j \in DOMAIN hist[k] :
      ( /\ i < j
        /\ hist[k][i].action \notin {"none", "verbalwarn"}
        /\ Within(hist[k][i].time, hist[k][j].time, PUNISHMENT_COOLDOWN) )
      => hist[k][j].action = "none"

\* C1, witness: a message that breaks the caps rule, at another time less
\* than 5 seconds after a punished one, and nothing was applied
C1_Witness ==
    \E k \in DOMAIN hist : \E i, j \in DOMAIN hist[k] :
      /\ i < j
      /\ hist[k][i].action \notin {"none", "verbalwarn"}
      /\ hist[k][j].time > hist[k][i].time
      /\ Within(hist[k][i].time, hist[k][j].time, PUNISHMENT_COOLDOWN)
      /\ CapsFires(MessageOf(k, j))
      /\ hist[k][j].action = "none"

\* the calls among the 5 most recent up to the j-th on a record
Recent(h, j) == {a \in DOMAIN h : a <= j /\ a > j - FLOOD_MINIMUM_MESSAGES}

\* those of them whose time is within 5 seconds of the time of the j-th
Near(h, j) ==
    {a \in Recent(h, j) :
       /\ h[a].time - h[j].time <= FLOOD_MAXIMUM_TIME
       /\ h[j].time - h[a].time <= FLOOD_MAXIMUM_TIME}

\* the 5 most recent messages span at most 5 seconds, and no punishment
\* was applied to the record at a time up to 5 seconds before the j-th
FifthOfBurst(h, j) ==
    /\ Cardinality(Recent(h, j)) = FLOOD_MINIMUM_MESSAGES
    /\ \A a, b \in Recent(h, j) : h[a].time - h[b].time <= FLOOD_MAXIMUM_TIME
    /\ \A i \in 1..(j - 1) :
         h[i].action # "none" => h[j].time - h[i].time > PUNISHMENT_COOLDOWN

\* C2, first part: the 5th message of such a burst is punished for flooding
C2_FloodOnFifth ==
    \A k \in DOMAIN hist : \A j \in DOMAIN hist[k] :
      FifthOfBurst(hist[k], j)
      => hist[k][j].action # "none" /\ "flooding" \in Range(hist[k][j].rules)

\* C2, second part: the flood rule does not fire on a message when fewer
\* than 5 of the 5 most recent messages, itself among them, are within 5
\* seconds of it: not on the messages 1 to 4 of a record, not on a message
\* 10 seconds after a burst
C2_NoFloodOutsideBurst ==
    \A k \in DOMAIN hist : \A j \in DOMAIN hist[k] :
      Cardinality(Near(hist[k], j)) < FLOOD_MINIMUM_MESSAGES
      => "flooding" \notin Range(hist[k][j].rules)

\* C2: with moderation active in the room, 5 messages of a user within 5
\* seconds and no punishment in the 5 seconds before are punished for
\* flooding once, on the 5th, and a later message does not fire the flood
\* rule when fewer than 5 of the most recent messages are within 5 seconds
\* of it
C2_Flood == C2_FloodOnFifth /\ C2_NoFloodOutsideBurst

\* the last call of moderate went past the gate and the cooldown
ReachedRules == last.moderated /\ last.stage \in {"norule", "applied"}

\* C3: a call of moderate says at most one thing to the room; it says one
\* when the rules were reached and a candidate was produced, by the plug-in
\* or by a rule (the caps and stretching rules are looked at again here, on
\* the message the call was given); it says nothing when there was no
\* candidate
C3_OnePunishmentPerCall ==
    last.moderated =>
      /\ Len(last.says) <= 1
      /\ last.rules # <<>> => Len(last.says) = 1
      /\ (ReachedRules /\ CapsFires(Normalize(last.message)))
         => Len(last.says) = 1 /\ "caps" \in Range(last.rules)
      /\ (ReachedRules /\ StretchFires(Normalize(last.message)))
         => Len(last.says) = 1 /\ "stretching" \in Range(last.rules)
      /\ last.rules = <<>> => last.says = <<>> /\ last.action = "none"
      /\ ~ReachedRules => last.rules = <<>>

\* C3, witness: a call with two candidates, the plug-in's and the caps
\* rule's, said one thing
C3_Witness ==
    /\ last.moderated
    /\ Len(last.rules) = 2
    /\ Len(last.says) = 1

\* C4, as claimed: a call of moderate leaves the points of every record
\* greater than or equal to what they were
C4_PointsNeverDecrease ==
    [][\A k \in DOMAIN roomData :
         k \in DOMAIN roomData'
         /\ NumGE(roomData'[k].points, roomData[k].points)]_vars

\* C5, as claimed: the rank a room keeps for a user is the rank the user
\* keeps for the room
C5_RanksInSync ==
    \A r \in Rooms : \A u \in DOMAIN roomUsers[r] :
      /\ u \in DOMAIN userRooms
      /\ r \in DOMAIN userRooms[u]
      /\ userRooms[u][r] = roomUsers[r][u]

\* the last line was a chat line of the local account that the hook let
\* through
SelfChat ==
    /\ last.type \in {"c", "c:"}
    /\ ~last.vetoed
    /\ last.user = SelfId(cfg)

\* C6: a chat line of the local account runs no command and is not moderated:
\* no record is made or changed and nothing is said; a listener is called
\* only when the identifier of the message is a key of the listeners of the
\* room, and it is the listener of that key
C6_SelfChatOnlyListener ==
    [][SelfChat' =>
         /\ last'.handlers = <<>>
         /\ last'.result = "none"
         /\ ~last'.moderated
         /\ last'.says = <<>>
         /\ roomData' = roomData
         /\ hist' = hist
         /\ Len(last'.listeners) <= 1
         /\ \A i \in DOMAIN last'.listeners :
              /\ last'.listeners[i] = ToId(JoinFields(Tail(last'.args)))
              /\ last'.listeners[i] \in Listeners[last'.room]]_vars

\* C6, witness: the local account said "Ok!" in the lobby and the listener
\* of the key ok was called
C6_Witness == SelfChat /\ last.listeners = << <<"o","k">> >>

\* C9: an updateuser line that the hook let through: with another username
\* nothing changes and nothing is sent; with the configured username and a
\* flag other than "1" the process exits and no join request is sent; with
\* the flag "1" one join request per configured room is sent, in the
\* configured order, and nothing else
C9_UpdateUser ==
    [][(last'.type = "updateuser" /\ ~last'.vetoed) =>
         /\ last'.args[1] # cfg.username =>
              /\ UNCHANGED <<cfg, users, roomUsers, userRooms, roomData, now,
                             exited, hist>>
              /\ last'.sent = <<>>
         /\ (last'.args[1] = cfg.username /\ last'.args[2] # <<"1">>) =>
              /\ exited'
              /\ last'.sent = <<>>
         /\ (last'.args[1] = cfg.username /\ last'.args[2] = <<"1">>) =>
              /\ ~exited'
              /\ Len(last'.sent) = Len(cfg.rooms)
              /\ \A i \in DOMAIN cfg.rooms :
                   last'.sent[i] = <<"|/join ", cfg.rooms[i]>>
              /\ UNCHANGED <<users, roomUsers, userRooms, roomData, hist>>]_vars

\* C9, witness: the login succeeded and the join requests of the two
\* configured rooms were sent
C9_Witness ==
    /\ last.type = "updateuser"
    /\ ~last.vetoed
    /\ last.args = <<cfg.username, <<"1">> >>
    /\ Len(last.sent) = 2

\* the identifiers of the users a snapshot lists
Listed(entries) ==
    IF entries = << <<"0">> >> THEN {}
    ELSE {ToId(Tail(entries[i])) : i \in 2..Len(entries)}

\* the rank a snapshot gives to the user u (the last entry of that user)
RankIn(entries, u) ==
    Head(entries[CHOOSE i \in 2..Len(entries) :
                   /\ ToId(Tail(entries[i])) = u
                   /\ \A j \in (i + 1)..Len(entries) :
                        ToId(Tail(entries[j])) # u])

\* the last two lines were users snapshots of the same room that the hook
\* let through
TwoSnapshots ==
    /\ last.type = "users" /\ ~last.vetoed
    /\ last'.type = "users" /\ ~last'.vetoed
    /\ last'.room = last.room

\* C10: the same users snapshot parsed a second time changes nothing of the
\* membership; a snapshot of the same users with other ranks adds and
\* removes no entry and changes only the ranks of the users it lists, in
\* the room it is for
C10_SnapshotTwice ==
    [][TwoSnapshots =>
         /\ last'.args = last.args =>
              UNCHANGED <<users, roomUsers, userRooms>>
         /\ Listed(last'.args) = Listed(last.args) =>
              /\ users' = users
              /\ \A r \in Rooms : DOMAIN roomUsers'[r] = DOMAIN roomUsers[r]
              /\ \A u \in users : DOMAIN userRooms'[u] = DOMAIN userRooms[u]
              /\ \A r \in Rooms : \A u \in DOMAIN roomUsers[r] :
                   roomUsers'[r][u] =
                     IF r = last'.room /\ u \in Listed(last'.args)
                     THEN RankIn(last'.args, u) ELSE roomUsers[r][u]
              /\ \A u \in users : \A r \in DOMAIN userRooms[u] :
                   userRooms'[u][r] =
                     IF r = last'.room /\ u \in Listed(last'.args)
                     THEN RankIn(last'.args, u) ELSE userRooms[u][r]]_vars

\* C10, witness: a snapshot of Al and the local account was followed by a
\* snapshot of the same two users with other ranks, and the ranks are the
\* new ones
C10_Witness ==
    /\ last.type = "users"
    /\ ~last.vetoed
    /\ last.args = << <<"2">>, AlVoice, <<"@","B","o","t">> >>
    /\ last.before.type = "users"
    /\ ~last.before.vetoed
    /\ last.before.room = last.room
    /\ last.before.args = << <<"2">>, Al, Bot >>
    /\ roomUsers["lobby"] = (ToId(Al) :> "+") @@ (ToId(BotName) :> "@")

\* the last line ran a handler and the handler threw
HandlerThrew ==
    /\ last.handlers # <<>>
    /\ Commands[last.handlers[1].command].ends # "returns"

\* C7, as claimed: when the handler of a command throws, run returns false
\* and nothing leaves parse, and the chat line of a user without rank is
\* moderated as any other
C7_HandlerFailureContained ==
    HandlerThrew =>
      /\ ~last.raised
      /\ last.result = "false"
      /\ (last.type = "c" /\ ~HasRank(userRooms[last.user], last.room, "+"))
         => last.moderated

\* the command of a message that starts with the command character: what
\* precedes the first blank, as an identifier
CommandToken(message) ==
    LET rest == Tail(Trim(message))
    IN  ToId(IF SpaceIndex(rest) # 0
             THEN SubSeq(rest, 1, SpaceIndex(rest) - 1) ELSE rest)

\* the last line was given to parseCommand and starts with the command
\* character: a chat line or a private message of a known user other than
\* the local account
CommandLine ==
    /\ last.type \in {"c", "pm"}
    /\ last.user \in users \ {SelfId(cfg)}
    /\ Trim(last.message) # <<>>
    /\ Head(Trim(last.message)) = cfg.commandCharacter

\* the handlers the registry holds under an identifier or under the
\* identifier it is an alias of; none for an alias of an alias
HandlersFor(token) ==
    IF token \notin DOMAIN Commands THEN {}
    ELSE IF Commands[token].kind = "handler" THEN {token}
    ELSE {t \in {Commands[token].target} :
            t \in DOMAIN Commands /\ Commands[t].kind = "handler"}

\* C8: a command whose entry is a handler, or an alias of a handler, calls
\* that handler once; without an entry, or with an alias of anything else,
\* no handler is called and nothing is raised
C8_CommandResolution ==
    CommandLine =>
      /\ Len(last.handlers) = Cardinality(HandlersFor(CommandToken(last.message)))
      /\ \A i \in DOMAIN last.handlers :
           last.handlers[i].command \in HandlersFor(CommandToken(last.message))
      /\ HandlersFor(CommandToken(last.message)) = {}
         => ~last.raised /\ last.result = "none"

\* C8, witness: "!s hi" named an alias of say, and say was called once
C8_Witness ==
    /\ CommandLine
    /\ last.message = ViaAlias
    /\ last.handlers = <<[command |-> <<"s","a","y">>, target |-> Hi]>>

\* the last line was a formats line
FormatsDecoded == last.type = "formats" /\ ~last.vetoed

\* the marks of a section header: an empty string, or a comma and an integer
IsHeaderMarker(e) ==
    \/ e = <<>>
    \/ e # <<>> /\ Head(e) = "," /\ ~ParseInt(Tail(e), 0).nan

\* what the element i of a list is: the element after a marker is the name
\* of a section, whatever it looks like; otherwise it is the marker ,LL, a
\* marker of a section header, or a descriptor
RECURSIVE RoleOf(_, _)
RoleOf(list, i) ==
    IF i > 1 /\ RoleOf(list, i - 1) = "marker" THEN "section"
    ELSE IF list[i] = <<",","L","L">> THEN "skipped"
    ELSE IF IsHeaderMarker(list[i]) THEN "marker"
    ELSE "descriptor"

\* the same when the marker ,LL is taken for the marker of a header
RECURSIVE ClaimedRoleOf(_, _)
ClaimedRoleOf(list, i) ==
    IF i > 1 /\ ClaimedRoleOf(list, i - 1) = "marker" THEN "section"
    ELSE IF list[i] = <<",","L","L">> \/ IsHeaderMarker(list[i]) THEN "marker"
    ELSE "descriptor"

\* the section declared last before the element i, empty when none was
SectionBefore(list, i) ==
    IF \E j \in 1..(i - 1) : RoleOf(list, j) = "section"
    THEN list[CHOOSE j \in 1..(i - 1) :
                /\ RoleOf(list, j) = "section"
                /\ \A k \in (j + 1)..(i - 1) : RoleOf(list, k) # "section"]
    ELSE <<>>

\* the identifier the element e gives its entry as a descriptor
IdOf(e) == ToId(Descriptor(e).name)

\* the descriptors of a list that the entry x of the catalog can be of: the
\* last descriptor with that identifier
DescriptorsOf(list, x) ==
    {i \in DOMAIN list :
       /\ RoleOf(list, i) = "descriptor"
       /\ IdOf(list[i]) = x
       /\ \A j \in (i + 1)..Len(list) :
            RoleOf(list, j) = "descriptor" => IdOf(list[j]) # x}

\* C11: after a formats line every entry of the catalog has the section
\* declared last before its descriptor, the empty one when none was
\* declared; the list "", SectionA, "Abc,8", Def gives the two entries abc
\* and def, both of SectionA
C11_SectionOfEntry ==
    (FormatsDecoded /\ formatsList # <<>>) =>
      /\ \A x \in DOMAIN formatsData :
           \E i \in DescriptorsOf(formatsList, x) :
             formatsData[x].section = SectionBefore(formatsList, i)
      /\ formatsList = <<Blank, SectionA, Abc8, Def>> =>
           /\ DOMAIN formatsData = {ToId(Def), <<"a","b","c">>}
           /\ \A x \in DOMAIN formatsData : formatsData[x].section = SectionA

\* C11, witness: a list with two sections was parsed; abc is of the first
\* and def of the second
C11_Witness ==
    /\ FormatsDecoded
    /\ formatsList = TwoSections
    /\ DOMAIN formatsData = {ToId(Def), <<"a","b","c">>}
    /\ formatsData[<<"a","b","c">>].section = SectionA
    /\ formatsData[ToId(Def)].section = SectionB

\* C12, as claimed: after a formats line every entry of the catalog comes
\* from a field of that line, also when the line has no field
C12_CatalogReplaced ==
    FormatsDecoded =>
      \A x \in DOMAIN formatsData :
        \E i \in DOMAIN last.args : IdOf(last.args[i]) = x

\* C19, as claimed: the empty string, the comma with an integer and the
\* marker ,LL give no entry and make the next element the name of a
\* section, which gives no entry: the entries of the catalog are those of
\* the other elements
C19_MarkersGiveNoEntry ==
    (FormatsDecoded /\ formatsList # <<>>) =>
      DOMAIN formatsData =
        {IdOf(formatsList[i]) :
           i \in {j \in DOMAIN formatsList :
                    ClaimedRoleOf(formatsList, j) = "descriptor"}} \ {<<>>}

\* C19, amended: the empty string and the comma with an integer give no
\* entry and make the next element the name of a section, which gives no
\* entry; the marker ,LL gives no entry and the element after it is taken
\* as any other
C19_HeadersGiveNoEntry ==
    (FormatsDecoded /\ formatsList # <<>>) =>
      DOMAIN formatsData =
        {IdOf(formatsList[i]) :
           i \in {j \in DOMAIN formatsList :
                    RoleOf(formatsList, j) = "descriptor"}} \ {<<>>}

\* C19, witness: after the marker ,1 the element "Abc,8" was the name of a
\* section, and the catalog has the entry def alone
C19_Witness ==
    /\ FormatsDecoded
    /\ formatsList = <<Column, Abc8, Def>>
    /\ DOMAIN formatsData = {ToId(Def)}
    /\ formatsData[ToId(Def)].section = Abc8

\* the record the last call of moderate was about
LastKey == <<last.user, last.room>>

\* the points of the record of the call a step makes, before the call
PointsBefore ==
    IF LastKey' \in DOMAIN roomData THEN roomData[LastKey'].points ELSE 0

\* a step is a call of moderate that chose a candidate with a configured
\* severity for a record whose points are a number
ChoseConfigured ==
    /\ last'.moderated
    /\ last'.stage = "applied"
    /\ last'.own \in DOMAIN cfg.punishmentPoints
    /\ PointsBefore # Undefined

\* the action the escalation arrives at in such a step
Escalated ==
    IF PointsBefore >= cfg.punishmentPoints[last'.own]
    THEN IF (PointsBefore + 1) \in DOMAIN cfg.punishmentActions
         THEN cfg.punishmentActions[PointsBefore + 1]
         ELSE last'.own
    ELSE last'.own

\* the points the escalation arrives at in such a step
EscalatedPoints ==
    IF PointsBefore >= cfg.punishmentPoints[last'.own]
    THEN PointsBefore + 1
    ELSE cfg.punishmentPoints[last'.own]

\* C13, as claimed: with points at or above the severity of the candidate
\* the points grow by 1 and the action applied is the one of the ladder at
\* the new points, the candidate's own when the ladder has none; with
\* points below the severity the points become the severity and the action
\* applied is the candidate's own
C13_Escalation ==
    [][ChoseConfigured =>
         /\ roomData'[LastKey'].points = EscalatedPoints
         /\ last'.action = Escalated]_vars

\* C13, amended: the same for the action the escalation arrives at; what is
\* applied is that action, or hourmute when that action is roomban and the
\* local account has no rank '@' in the room
C13_EscalationThenDowngrade ==
    [][ChoseConfigured =>
         /\ roomData'[LastKey'].points = EscalatedPoints
         /\ last'.action =
              IF Escalated = "roomban"
                 /\ ~HasRank(userRooms'[SelfId(cfg)], last'.room, "@")
              THEN "hourmute" ELSE Escalated]_vars

\* C13, witness: a verbal warning for caps met points at its severity and
\* became the warn of the ladder
C13_Witness ==
    /\ last.moderated
    /\ last.stage = "applied"
    /\ last.own = "verbalwarn"
    /\ last.action = "warn"
    /\ roomData[LastKey].points = 1

\* lastAction of the record k before a step, 0 when the step makes it
LastActionBefore(k) ==
    IF k \in DOMAIN roomData THEN roomData[k].lastAction ELSE 0

\* a step is a call of moderate that applied an action other than
\* verbalwarn
AppliedCommand ==
    last'.moderated /\ last'.action \notin {"none", "verbalwarn"}

\* C14: lastAction of a record changes only in a call of moderate for that
\* record that applies an action other than verbalwarn, and is then the
\* time of the call; a call that applies verbalwarn, its own or the
\* ladder's, a call in the cooldown and a call without candidate leave it
\* as it was
C14_LastActionFrame ==
    [][\A k \in DOMAIN roomData' :
         /\ roomData'[k].lastAction # LastActionBefore(k)
            => k = LastKey' /\ AppliedCommand
         /\ (k = LastKey' /\ AppliedCommand)
            => roomData'[k].lastAction = last'.time
         /\ ~AppliedCommand
            => roomData'[k].lastAction = LastActionBefore(k)]_vars

\* C14, witness: a roomban candidate met points at its severity, the ladder
\* made it a verbalwarn, and lastAction stayed at the time of the earlier
\* action
C14_Witness ==
    /\ last.moderated
    /\ last.own = "roomban"
    /\ last.action = "verbalwarn"
    /\ last.says # <<>>
    /\ roomData[LastKey].lastAction # 0
    /\ roomData[LastKey].lastAction # last.time

\* the local account has not the rank '@' in the room of the last line
BelowBan == ~HasRank(userRooms[SelfId(cfg)], last.room, "@")

\* the candidates the rules and the plug-in make
Candidates ==
    PluginPunishments \cup {FloodPunishment, StretchPunishment, CapsPunishment}

\* the reason given for the rule r: the configured one, else the rule's own
ReasonFor(r) ==
    IF r \in DOMAIN cfg.punishmentReasons THEN cfg.punishmentReasons[r]
    ELSE (CHOOSE p \in Candidates : p.rule = r).reason

\* C15, first part: no roomban command is sent to a room in which the local
\* account is below '@'
C15_NoRoombanBelowBan ==
    (last.moderated /\ BelowBan) =>
      \A i \in DOMAIN last.says : \A j \in DOMAIN last.says[i] :
        last.says[i][j] # "roomban"

\* C15, second part: when the escalation arrives at roomban and the local
\* account is below '@', the command sent is hourmute for the same user
\* and reason, and the points and lastAction are those of any other command
C15_HourmuteInstead ==
    (ChoseConfigured /\ Escalated = "roomban" /\ BelowBan') =>
      /\ last'.says = << <<"/", "hourmute", " ", last'.user, ", ",
                           ReasonFor(last'.rule)>> >>
      /\ roomData'[LastKey'].points = EscalatedPoints
      /\ roomData'[LastKey'].lastAction = last'.time

\* C15: a moderator below '@' sends hourmute where the escalation arrives
\* at roomban
C15_RoombanDowngraded ==
    [][C15_NoRoombanBelowBan' /\ C15_HourmuteInstead]_vars

\* C15, witness: the plug-in's roomban was sent as hourmute by a local
\* account of rank '%'
C15_Witness ==
    /\ last.moderated
    /\ BelowBan
    /\ last.own = "roomban"
    /\ last.says = << <<"/", "hourmute", " ", last.user, ", ",
                        "banned word">> >>
    /\ roomData[LastKey].lastAction = last.time

\* something moderate needs is missing in the room of the last line: the
\* rank '%' of the local account, moderation switched on for the room, the
\* table of points, the table of actions
Unprepared ==
    \/ ~HasRank(userRooms[SelfId(cfg)], last.room, "%")
    \/ cfg.allowModeration.isMap /\ last.room \notin cfg.allowModeration.on
    \/ ~cfg.allowModeration.isMap /\ ~cfg.allowModeration.flag
    \/ ~cfg.hasPunishmentPoints
    \/ ~cfg.hasPunishmentActions

\* C16: a call of moderate with one of these missing does nothing: no
\* record is made, no message is kept, no points and no lastAction change,
\* nothing is said
C16_GateClosedNoOp ==
    [][(last'.moderated /\ Unprepared') =>
         /\ roomData' = roomData
         /\ hist' = hist
         /\ last'.says = <<>>
         /\ last'.action = "none"]_vars

\* C16, witness: with no table of points a message in capitals was given to
\* moderate and no record exists
C16_Witness ==
    /\ last.moderated
    /\ ~cfg.hasPunishmentPoints
    /\ CapsFires(Normalize(last.message))
    /\ roomData = EmptyMap
    /\ last.says = <<>>

\* C17, as claimed: a chat line of a known user other than the local
\* account is given to moderate, after its command has run, exactly when
\* the rank of the speaker in the room, as the line has set it, is below
\* '+'; whether the line was a command, and whether the command succeeded,
\* makes no difference
C17_ModerateIffBelowVoice ==
    (/\ last.type \in {"c", "c:"}
     /\ ~last.vetoed
     /\ last.user \in users \ {SelfId(cfg)})
    => (last.moderated <=> ~HasRank(userRooms[last.user], last.room, "+"))

\* C18, as claimed: the history of every record is ordered newest first by
\* time, whether the times come from the clock of the decoder (c) or from
\* the line (c:): no entry is older than the entry after it
C18_HistoryNewestFirst ==
    \A k \in DOMAIN roomData :
      \A i \in 1..(Len(roomData[k].messages) - 1) :
        roomData[k].messages[i].time >= roomData[k].messages[i + 1].time

\* a step leaves lastAction of every record where it was or moves it
\* forward
LastActionGrows ==
    \A k \in DOMAIN roomData' :
      roomData'[k].lastAction >= LastActionBefore(k)

\* the actions other than verbalwarn applied to one record are for messages
\* whose times are a cooldown apart, in the order of the calls
PunishmentsSpaced ==
    \A k \in DOMAIN hist : \A i, j \in DOMAIN hist[k] :
      (/\ i < j
       /\ hist[k][i].action \notin {"none", "verbalwarn"}
       /\ hist[k][j].action \notin {"none", "verbalwarn"})
      => hist[k][j].time - hist[k][i].time >= PUNISHMENT_COOLDOWN

\* a step is a call of moderate, past the gate, for a message older than
\* the last action on its record
OlderThanLastAction ==
    /\ last'.moderated
    /\ last'.stage # "gate"
    /\ LastKey' \in DOMAIN roomData
    /\ last'.time < roomData[LastKey'].lastAction

\* the call a step makes put its message in front of the history and did
\* nothing else
Suppressed ==
    /\ roomData'[LastKey'] =
         [roomData[LastKey'] EXCEPT
            !.messages = <<[message |-> Normalize(last'.message),
                            time |-> last'.time]>> \o @]
    /\ last'.says = <<>>
    /\ last'.action = "none"

\* C20: lastAction of a record never decreases; two actions other than
\* verbalwarn on one record are for messages at least 5000 ms apart; and a
\* message older than lastAction of its record is suppressed: it joins the
\* history, the points and lastAction stay, nothing is said
C20_CooldownOrder ==
    [][/\ LastActionGrows
       /\ PunishmentsSpaced'
       /\ OlderThanLastAction => Suppressed]_vars

\* C20, witness: after an action at 10000 ms a message that breaks a rule
\* came with the time 1000 ms and was suppressed
C20_Witness ==
    /\ last.moderated
    /\ last.stage = "cooldown"
    /\ CapsFires(Normalize(last.message))
    /\ last.time < roomData[LastKey].lastAction
    /\ Len(roomData[LastKey].messages) >= 2
    /\ roomData[LastKey].messages[1].time = last.time
    /\ last.says = <<>>

====
